---- MODULE Spec2Model ----
(***************************************************************************)
(* BB84 + KEM delivery protocol of netsquid/prept5.py.                     *)
(*                                                                         *)
(* Two protocols (AliceProtocol, BobProtocol) are multiplexed on one       *)
(* discrete-event queue ordered by simulated time.  A protocol step is the *)
(* code that runs between two yields.  The three channels are FIFO message *)
(* queues; every message carries the simulated time at which it becomes    *)
(* available at the receiving port.  The quantum channel may drop a qubit  *)
(* when it is sent.  Time is measured in ticks: one tick is the delay of   *)
(* one distance unit of fibre.                                             *)
(***************************************************************************)
EXTENDS Integers, Sequences, FiniteSets, TLC

(* ------------------------------ bounds --------------------------------- *)
MaxBits == 2
MaxRetriesBound == 2
MaxCodecLen == 9
MaxDataLen == 3
MaxSecretLen == 2
MaxSessions == 2

(* ------------------------- program constants --------------------------- *)
\* Global end time of the event loop, in ticks.
ENDTIME == 6
\* Delay of a ClassicalChannel built without a delay model.
CDELAY == 0

\* Values of the run parameters explored.
DISTANCES == {1, 4}
TIMEOUTS == {1, 2, 3, ENDTIME + 1}
\* Shared secrets the KEM may produce (one-byte strings).
SECRETS == {<<90>>, <<165>>}
\* Byte values the byte strings are drawn from.
BYTES == {0, 90, 255}
\* Bob's key pair: identifier of the private key and of its public key.
BobKey == 1

VARIABLES
    \* run parameters and module globals
    num_bits, max_retries, TIMEOUT, DISTANCE, GLOBAL_SHARED_SECRET,
    \* AliceProtocol
    bits, bases, current_idx, attempts, a_shared_secret, bases_bytes,
    a_pc, timer,
    \* BobProtocol
    measurements, alice_bases, expected_idx, b_shared_secret,
    decrypted_bases_bytes, encrypted_bases, encap_key, seq_num, b_pc,
    \* network
    c_channel_ab, c_channel_ba, q_channel,
    \* simulator and runner
    now, phase, success,
    \* history (observation only)
    sends, drops, timeouts, discards, measTags, secret_src, lost_pending,
    ab_sent, ack_log, hs_read, early_tag, qubit_waited, lost_log, session,
    \* basis codec exercised on its own
    codec

cfgVars == <<num_bits, max_retries, TIMEOUT, DISTANCE, bits, bases>>
aliceVars == <<current_idx, attempts, a_shared_secret, bases_bytes, a_pc, timer>>
bobVars == <<measurements, alice_bases, expected_idx, b_shared_secret,
             decrypted_bases_bytes, encrypted_bases, encap_key, seq_num, b_pc>>
netVars == <<c_channel_ab, c_channel_ba, q_channel>>
histVars == <<sends, drops, timeouts, discards, measTags, secret_src,
              lost_pending, ab_sent, ack_log, hs_read, early_tag,
              qubit_waited, lost_log, session>>
protoVars == <<cfgVars, GLOBAL_SHARED_SECRET, aliceVars, bobVars, netVars,
               now, phase, success, histVars>>
vars == <<protoVars, codec>>

None == <<>>

(* --------------------------- pure functions ---------------------------- *)
Min(a, b) == IF a <= b THEN a ELSE b

RECURSIVE XorBits(_, _, _)
XorBits(a, b, n) ==
    IF n = 0 THEN 0
    ELSE (((a % 2) + (b % 2)) % 2) + 2 * XorBits(a \div 2, b \div 2, n - 1)

\* byte ^ byte
XorByte(a, b) == XorBits(a, b, 8)

\* for i, byte in enumerate(data): out.append(byte ^ key_bytes[i % len(key_bytes)])
XorKeystream(data, key_bytes) ==
    [i \in 1..Len(data) |-> XorByte(data[i], key_bytes[((i - 1) % Len(key_bytes)) + 1])]

\* "t4 t3.1 ack + kyber.py", lines 90-91 and 150:
\* key = shared_secret[:len(data)]; bytes([b ^ k for b, k in zip(data, key)])
XorKeystreamZip(data, shared_secret) ==
    LET key == SubSeq(shared_secret, 1, Min(Len(data), Len(shared_secret)))
    IN  [i \in 1..Min(Len(data), Len(key)) |-> XorByte(data[i], key[i])]

\* int(s, 2) of a sequence of binary digits, most significant first
RECURSIVE BinToInt(_)
BinToInt(s) ==
    IF Len(s) = 0 THEN 0
    ELSE (2 * BinToInt(SubSeq(s, 1, Len(s) - 1))) + s[Len(s)]

\* f"{byte:08b}"
RECURSIVE IntToBin(_, _)
IntToBin(byte, width) ==
    IF width = 0 THEN <<>>
    ELSE Append(IntToBin(byte \div 2, width - 1), (byte % 2))

bases_to_bytes(bs) ==
    LET bit_string == [i \in 1..Len(bs) |-> IF bs[i] = "X" THEN 0 ELSE 1]
        padlen == ((Len(bit_string) + 7) \div 8) * 8
        padded == [i \in 1..padlen |-> IF i <= Len(bit_string) THEN bit_string[i] ELSE 0]
    IN  [k \in 1..(padlen \div 8) |-> BinToInt(SubSeq(padded, 8 * (k - 1) + 1, 8 * k))]

RECURSIVE JoinBin(_)
JoinBin(byte_data) ==
    IF Len(byte_data) = 0 THEN <<>>
    ELSE IntToBin(byte_data[1], 8) \o JoinBin(Tail(byte_data))

\* Variant: the joined bit string is not cut to the requested length.
bytes_to_bases_NoTruncate(byte_data, length) ==
    LET bit_string == JoinBin(byte_data)
    IN  [i \in 1..Len(bit_string) |-> IF bit_string[i] = 0 THEN "X" ELSE "Z"]

bytes_to_bases(byte_data, length) ==
    LET joined == JoinBin(byte_data)
        bit_string == SubSeq(joined, 1, Min(length, Len(joined)))
    IN  [i \in 1..Len(bit_string) |-> IF bit_string[i] = 0 THEN "X" ELSE "Z"]

\* "t4 t3.1 ack + kyber.py", lines 19-21: '1' for X, chunks of 8, ljust(8, '0')
bases_to_bytes_t4(bs) ==
    LET nbytes == (Len(bs) + 7) \div 8
        chunk(k) == SubSeq(bs, 8 * (k - 1) + 1, Min(8 * k, Len(bs)))
        digits(c) == [i \in 1..8 |-> IF i <= Len(c) /\ c[i] = "X" THEN 1 ELSE 0]
    IN  [k \in 1..nbytes |-> BinToInt(digits(chunk(k)))]

\* "t4 t3.1 ack + kyber.py", lines 23-25: 'X' if (byte >> (7 - i)) & 1 else 'Z'
bytes_to_bases_t4(byte_stream, n) ==
    LET joined == JoinBin(byte_stream)
        cut == SubSeq(joined, 1, Min(n, Len(joined)))
    IN  [i \in 1..Len(cut) |-> IF cut[i] = 1 THEN "X" ELSE "Z"]

\* Kyber.encapsulate: the ciphertext binds the fresh secret to the public key.
encapsulate(public_key, secret) == [pk |-> public_key, ss |-> secret]

\* Kyber.decapsulate with the stored private key.
decapsulate(private_key, ciphertext) ==
    IF ciphertext.pk = private_key THEN ciphertext.ss ELSE <<0>>

\* Kyber.encrypt: (encrypted, ciphertext, shared_secret)
encrypt(plaintext, public_key, secret) ==
    <<XorKeystream(plaintext, secret), encapsulate(public_key, secret), secret>>

\* Python list equality a == b
RECURSIVE ListEq(_, _)
ListEq(a, b) ==
    IF Len(a) # Len(b) THEN FALSE
    ELSE IF Len(a) = 0 THEN TRUE
    ELSE a[1] = b[1] /\ ListEq(Tail(a), Tail(b))

(* ------------------------------ messages ------------------------------- *)
Msg(t, item) == [at |-> t, item |-> item]
BytesItem(b) == [type |-> "bytes", val |-> b]
KeyItem(c) == [type |-> "encap", val |-> c]
IntItem(i) == [type |-> "int", val |-> i]

\* FibreDelayModel: delay proportional to the channel length
QDelay == DISTANCE

\* Variant: the X gate for a 1 bit is left out.
Qubit_NoFlip(idx) == [bit |-> 0, basis |-> bases[idx + 1], idx |-> idx]

\* qubit prepared from bits[idx] (X gate) and bases[idx] (H gate)
Qubit(idx) == [bit |-> bits[idx + 1], basis |-> bases[idx + 1], idx |-> idx]

\* await_port_input(port) has fired: a message is available on the port
Available(ch) == Len(ch) > 0 /\ ch[1].at <= now

\* Variant: the port hands over the newest message instead of the oldest.
rx_input_Latest(ch) == ch[Len(ch)].item

\* Port.rx_input: the oldest message of the port that has not been read.
rx_input(ch) == Head(ch).item

\* The items tx_output has put on a channel in a step that reads nothing
\* from it: what ch_after holds beyond ch_before.
Sent(ch_before, ch_after) ==
    [i \in 1..(Len(ch_after) - Len(ch_before)) |-> ch_after[Len(ch_before) + i].item]

\* A sequence tag has reached Bob's cin.
TagWaiting(ch) == \E i \in 1..Len(ch) : ch[i].item.type = "int" /\ ch[i].at <= now

AllSeqs(S, n) == [1..n -> S]

(* -------------------------------- Init --------------------------------- *)
\* State after the module is loaded and run_bb84_kem has built the network
\* and both protocol objects (lines 21, 123-133, 177-186, 235-258).
ProtoInit(ph) ==
    /\ GLOBAL_SHARED_SECRET = None
    /\ current_idx = 0
    /\ attempts = 0
    /\ a_shared_secret = None
    /\ bases_bytes = None
    /\ a_pc = "start"
    /\ timer = 0
    /\ measurements = <<>>
    /\ alice_bases = None
    /\ expected_idx = 0
    /\ b_shared_secret = None
    /\ decrypted_bases_bytes = None
    /\ encrypted_bases = None
    /\ encap_key = None
    /\ seq_num = IntItem(0)
    /\ b_pc = "await_bases"
    /\ c_channel_ab = <<>>
    /\ c_channel_ba = <<>>
    /\ q_channel = <<>>
    /\ now = 0
    /\ phase = ph
    /\ success = FALSE
    /\ sends = 0
    /\ drops = 0
    /\ timeouts = 0
    /\ discards = 0
    /\ measTags = <<>>
    /\ secret_src = "none"
    /\ lost_pending = FALSE
    /\ ab_sent = <<>>
    /\ ack_log = <<>>
    /\ hs_read = <<>>
    /\ early_tag = FALSE
    /\ qubit_waited = FALSE
    /\ lost_log = <<>>
    /\ session = [n |-> 1, wrote |-> 0, read |-> 0, prev |-> None]

Init ==
    /\ num_bits \in 1..MaxBits
    /\ max_retries \in 0..MaxRetriesBound
    /\ TIMEOUT \in TIMEOUTS
    /\ DISTANCE \in DISTANCES
    /\ bits \in AllSeqs({0, 1}, num_bits)
    /\ bases \in AllSeqs({"Z", "X"}, num_bits)
    /\ ProtoInit("running")
    /\ codec = [pc |-> "off"]

(* ---------------------------- AliceProtocol ---------------------------- *)
\* Lines 157-164: send the tag, prepare and send a fresh qubit (which the
\* fibre may lose), then wait for the port input or the timer.
AliceTransmit(cab, idx, att) ==
    /\ c_channel_ab' = Append(cab, Msg(now + CDELAY, IntItem(idx)))
    /\ \E lost \in BOOLEAN :
        /\ q_channel' = IF lost THEN q_channel
                        ELSE Append(q_channel, Msg(now + QDelay, Qubit(idx)))
        /\ drops' = IF lost THEN drops + 1 ELSE drops
        /\ lost_log' = IF lost THEN Append(lost_log, idx) ELSE lost_log
        /\ lost_pending' = (lost /\ att + 1 < max_retries)
    /\ timer' = now + TIMEOUT
    /\ current_idx' = idx
    /\ attempts' = att
    /\ a_pc' = "await_ack"
    /\ sends' = sends + 1

\* Variant: giving up still announces the next index.
AliceExit_TagAhead(cab, idx, att, pc) ==
    /\ c_channel_ab' = IF pc = "aborted"
                       THEN Append(cab, Msg(now + CDELAY, IntItem(idx + 1)))
                       ELSE cab
    /\ current_idx' = idx
    /\ attempts' = att
    /\ a_pc' = pc
    /\ lost_pending' = FALSE
    /\ UNCHANGED <<q_channel, timer, sends, drops, lost_log>>

\* The run method returns: the loop condition failed ("done") or break.
AliceExit(cab, idx, att, pc) ==
    /\ c_channel_ab' = cab
    /\ current_idx' = idx
    /\ attempts' = att
    /\ a_pc' = pc
    /\ lost_pending' = FALSE
    /\ UNCHANGED <<q_channel, timer, sends, drops, lost_log>>

\* Variant: the first attempt is made before the retry budget is tested.
AliceOuter_AtLeastOnce(cab, idx) ==
    IF idx < num_bits
    THEN IF 0 <= max_retries
         THEN AliceTransmit(cab, idx, 0)
         ELSE AliceExit(cab, idx, 0, "aborted")
    ELSE AliceExit(cab, idx, attempts, "done")

\* Line 153: while self.current_idx < self.num_bits, then lines 154-156 with
\* attempts = 0 and acked = False.
AliceOuter(cab, idx) ==
    IF idx < num_bits
    THEN IF 0 < max_retries
         THEN AliceTransmit(cab, idx, 0)
         ELSE AliceExit(cab, idx, 0, "aborted")
    ELSE AliceExit(cab, idx, attempts, "done")

\* Variant: leaving the inner loop always breaks, acknowledged or not.
AliceInner_NoAckCheck(cab, idx, att, acked) ==
    IF att < max_retries /\ ~acked
    THEN AliceTransmit(cab, idx, att)
    ELSE AliceExit(cab, idx, att, "aborted")

\* Variant: the retry budget is tested with <= and allows one attempt more.
AliceInner_OneMore(cab, idx, att, acked) ==
    IF att <= max_retries /\ ~acked
    THEN AliceTransmit(cab, idx, att)
    ELSE IF acked
         THEN AliceOuter(cab, idx + 1)
         ELSE AliceExit(cab, idx, att, "aborted")

\* Variant: an index whose retries are used up is skipped, not fatal.
AliceInner_SkipOnExhaustion(cab, idx, att, acked) ==
    IF att < max_retries /\ ~acked
    THEN AliceTransmit(cab, idx, att)
    ELSE AliceOuter(cab, idx + 1)

\* Line 156: while attempts < self.max_retries and not acked; lines 170-174
\* once the inner loop is left.
AliceInner(cab, idx, att, acked) ==
    IF att < max_retries /\ ~acked
    THEN AliceTransmit(cab, idx, att)
    ELSE IF acked
         THEN AliceOuter(cab, idx + 1)
         ELSE AliceExit(cab, idx, att, "aborted")

\* Variant: the acknowledgement is compared with the next index.
AckMatches_Next(item, idx) == item.type = "int" /\ item.val = idx + 1

\* Line 167: msg and msg.items[0] == self.current_idx
AckMatches(item, idx) == item.type = "int" /\ item.val = idx

\* Variant: the encapsulated key goes out before the encrypted bases.
Handshake_KeyFirst(cab, enc) ==
    Append(Append(cab, Msg(now + CDELAY, KeyItem(enc[2]))),
           Msg(now + CDELAY, BytesItem(enc[1])))

\* Lines 149-150: tx_output of encrypted_bases, then tx_output of encap_key.
Handshake(cab, enc) ==
    Append(Append(cab, Msg(now + CDELAY, BytesItem(enc[1]))),
           Msg(now + CDELAY, KeyItem(enc[2])))

\* Variant: the global is only set while it is still None.
SaveSecret_Once(old, new) == IF old = None THEN new ELSE old

\* Line 146: GLOBAL_SHARED_SECRET = self.shared_secret
SaveSecret(old, new) == new

\* Lines 135-164, up to the first yield.
AliceStart ==
    /\ phase = "running"
    /\ a_pc = "start"
    /\ \E secret \in SECRETS :
        LET bb == bases_to_bytes(bases)
            enc == encrypt(bb, BobKey, secret)
            cab == Handshake(c_channel_ab, enc)
        IN  /\ bases_bytes' = bb
            /\ a_shared_secret' = enc[3]
            /\ GLOBAL_SHARED_SECRET' = SaveSecret(GLOBAL_SHARED_SECRET, enc[3])
            /\ session' = [session EXCEPT !.wrote = session.n]
            /\ AliceOuter(cab, current_idx)
    /\ ab_sent' = ab_sent \o Sent(c_channel_ab, c_channel_ab')
    /\ UNCHANGED <<cfgVars, bobVars, c_channel_ba, now, phase, success,
                   timeouts, discards, measTags, secret_src, ack_log, hs_read,
                   early_tag, qubit_waited, codec>>

\* Lines 165-174 and back to 164: the wait ended because cin fired.
AliceOnInput ==
    /\ phase = "running"
    /\ a_pc = "await_ack"
    /\ Available(c_channel_ba)
    /\ LET msg == rx_input(c_channel_ba)
       IN  AliceInner(c_channel_ab, current_idx, attempts + 1,
                      AckMatches(msg, current_idx))
    /\ c_channel_ba' = Tail(c_channel_ba)
    /\ ab_sent' = ab_sent \o Sent(c_channel_ab, c_channel_ab')
    /\ UNCHANGED <<cfgVars, GLOBAL_SHARED_SECRET, a_shared_secret, bases_bytes,
                   bobVars, now, phase, success, timeouts, discards, measTags,
                   secret_src, ack_log, hs_read, early_tag, qubit_waited,
                   session, codec>>

\* Lines 165-174 and back to 164: the wait ended because the timer fired
\* (expr.first_term.value is false).  When the timer and a message fall on
\* the same instant the order of the two events is the simulator's.
AliceOnTimer ==
    /\ phase = "running"
    /\ a_pc = "await_ack"
    /\ timer <= now
    /\ AliceInner(c_channel_ab, current_idx, attempts + 1, FALSE)
    /\ timeouts' = timeouts + 1
    /\ ab_sent' = ab_sent \o Sent(c_channel_ab, c_channel_ab')
    /\ UNCHANGED <<cfgVars, GLOBAL_SHARED_SECRET, a_shared_secret, bases_bytes,
                   bobVars, c_channel_ba, now, phase, success, discards,
                   measTags, secret_src, ack_log, hs_read, early_tag,
                   qubit_waited, session, codec>>

(* ----------------------------- BobProtocol ----------------------------- *)
\* Variant: the loop waits for the qubit only, not for a tag first.
BobLoop_QubitOnly(exp) == IF exp < num_bits THEN "await_qubit" ELSE "done"

\* Line 219: while self.expected_idx < self.num_bits
BobLoop(exp) == IF exp < num_bits THEN "await_tag" ELSE "done"

\* Lines 191-193
BobRecvBases ==
    /\ phase = "running"
    /\ b_pc = "await_bases"
    /\ Available(c_channel_ab)
    /\ encrypted_bases' = rx_input(c_channel_ab).val
    /\ hs_read' = Append(hs_read, rx_input(c_channel_ab).type)
    /\ early_tag' = (early_tag \/ TagWaiting(c_channel_ab))
    /\ c_channel_ab' = Tail(c_channel_ab)
    /\ b_pc' = "await_key"
    /\ UNCHANGED <<cfgVars, GLOBAL_SHARED_SECRET, aliceVars, measurements,
                   alice_bases, expected_idx, b_shared_secret,
                   decrypted_bases_bytes, encap_key, seq_num, c_channel_ba,
                   q_channel, now, phase, success, sends, drops, timeouts,
                   discards, measTags, secret_src, lost_pending, ab_sent,
                   ack_log, qubit_waited, lost_log, session, codec>>

\* Line 202: the secret Bob decrypts with, and where it comes from.
BobSecret(key_msg) ==
    [val |-> GLOBAL_SHARED_SECRET, src |-> "global", from |-> session.wrote]

\* Lines 197-219
BobRecvKey ==
    /\ phase = "running"
    /\ b_pc = "await_key"
    /\ Available(c_channel_ab)
    /\ LET key_msg == rx_input(c_channel_ab).val
           sec == BobSecret(key_msg)
           decrypted == XorKeystream(encrypted_bases, sec.val)
       IN  /\ encap_key' = key_msg
           /\ b_shared_secret' = sec.val
           /\ secret_src' = sec.src
           /\ session' = [session EXCEPT !.read = sec.from]
           /\ decrypted_bases_bytes' = decrypted
           /\ alice_bases' = bytes_to_bases(decrypted, num_bits)
    /\ hs_read' = Append(hs_read, rx_input(c_channel_ab).type)
    /\ early_tag' = (early_tag \/ TagWaiting(c_channel_ab))
    /\ c_channel_ab' = Tail(c_channel_ab)
    /\ b_pc' = BobLoop(expected_idx)
    /\ UNCHANGED <<cfgVars, GLOBAL_SHARED_SECRET, aliceVars, measurements,
                   expected_idx, encrypted_bases, seq_num, c_channel_ba,
                   q_channel, now, phase, success, sends, drops, timeouts,
                   discards, measTags, lost_pending, ab_sent, ack_log,
                   qubit_waited, lost_log, codec>>

\* Lines 220-223
BobRecvTag ==
    /\ phase = "running"
    /\ b_pc = "await_tag"
    /\ Available(c_channel_ab)
    /\ seq_num' = rx_input(c_channel_ab)
    /\ c_channel_ab' = Tail(c_channel_ab)
    /\ b_pc' = "await_qubit"
    /\ qubit_waited' = Available(q_channel)
    /\ UNCHANGED <<cfgVars, GLOBAL_SHARED_SECRET, aliceVars, measurements,
                   alice_bases, expected_idx, b_shared_secret,
                   decrypted_bases_bytes, encrypted_bases, encap_key,
                   c_channel_ba, q_channel, now, phase, success, sends, drops,
                   timeouts, discards, measTags, secret_src, lost_pending,
                   ab_sent, ack_log, hs_read, early_tag, lost_log, session,
                   codec>>

\* Variant: a tag at or below the expected index is accepted.
TagMatches_AtMost(item, exp) == item.type = "int" /\ item.val <= exp

\* Variant: every tag is accepted.
TagMatches_Always(item, exp) == item.type = "int"

\* Line 226: seq_num == self.expected_idx
TagMatches(item, exp) == item.type = "int" /\ item.val = exp

\* Variant: the Hadamard before the measurement is left out.
Measure_NoHadamard(qubit, basis) == IF qubit.basis = "Z" THEN {qubit.bit} ELSE {0, 1}

\* Lines 227-229: H if the basis is X, then measure in the computational
\* basis: the prepared bit when the bases agree, either outcome otherwise.
Measure(qubit, basis) == IF qubit.basis = basis THEN {qubit.bit} ELSE {0, 1}

\* Variant: the expected index skips one.
NextExpected_Skip(exp) == exp + 2

\* Line 232
NextExpected(exp) == exp + 1

\* Variant: the acknowledgement carries the index measured before this one.
AckValue_Previous(exp) == exp - 1

\* Variant: the acknowledgement carries the index after the increment.
AckValue_Post(exp) == exp + 1

\* Line 231: Message([self.expected_idx]), sent before line 232 increments.
AckValue(exp) == exp

\* Lines 224-232 and back to 219
BobRecvQubit ==
    /\ phase = "running"
    /\ b_pc = "await_qubit"
    /\ Available(q_channel)
    /\ LET qubit == rx_input(q_channel)
       IN  IF TagMatches(seq_num, expected_idx)
           THEN /\ \E result \in Measure(qubit, alice_bases[expected_idx + 1]) :
                     measurements' = Append(measurements, result)
                /\ c_channel_ba' = Append(c_channel_ba,
                        Msg(now + CDELAY, IntItem(AckValue(expected_idx))))
                /\ ack_log' = Append(ack_log, AckValue(expected_idx))
                /\ expected_idx' = NextExpected(expected_idx)
                /\ measTags' = Append(measTags, <<seq_num.val, expected_idx>>)
                /\ b_pc' = BobLoop(NextExpected(expected_idx))
                /\ UNCHANGED discards
           ELSE /\ b_pc' = BobLoop(expected_idx)
                /\ discards' = discards + 1
                /\ UNCHANGED <<measurements, c_channel_ba, expected_idx, measTags,
                               ack_log>>
    /\ q_channel' = Tail(q_channel)
    /\ UNCHANGED <<cfgVars, GLOBAL_SHARED_SECRET, aliceVars, alice_bases,
                   b_shared_secret, decrypted_bases_bytes, encrypted_bases,
                   encap_key, seq_num, c_channel_ab, now, phase, success,
                   sends, drops, timeouts, secret_src, lost_pending, ab_sent,
                   hs_read, early_tag, qubit_waited, lost_log, session, codec>>

(* ------------------------ simulator and runner ------------------------- *)
\* Some protocol can run at the current instant.
StepEnabled ==
    \/ a_pc = "start"
    \/ a_pc = "await_ack" /\ (Available(c_channel_ba) \/ timer <= now)
    \/ b_pc \in {"await_bases", "await_key", "await_tag"} /\ Available(c_channel_ab)
    \/ b_pc = "await_qubit" /\ Available(q_channel)

ChanTimes(ch) == {ch[i].at : i \in 1..Len(ch)}

\* Times of the events still scheduled: deliveries and the running timer.
PendingTimes ==
    {t \in ChanTimes(c_channel_ab) \cup ChanTimes(c_channel_ba) \cup ChanTimes(q_channel) :
        t > now}
    \cup (IF a_pc = "await_ack" /\ timer > now THEN {timer} ELSE {})

\* Variant: the event loop only stops once both protocols have finished.
SimOver_BothFinished == a_pc \in {"done", "aborted"} /\ b_pc = "done"

\* ns.sim_run(end_time=ENDTIME) returns: no event is left before the end time.
SimOver == \A t \in PendingTimes : t > ENDTIME

\* The event loop advances simulated time to the next scheduled event.
Tick ==
    /\ phase = "running"
    /\ ~StepEnabled
    /\ ~SimOver
    /\ PendingTimes # {}
    /\ now' = CHOOSE t \in PendingTimes : \A u \in PendingTimes : t <= u
    /\ UNCHANGED <<cfgVars, GLOBAL_SHARED_SECRET, aliceVars, bobVars, netVars,
                   phase, success, histVars, codec>>

\* Variant: only the delivered prefix is compared.
Verdict_Prefix(sent, measured) ==
    ListEq(SubSeq(sent, 1, Min(Len(sent), Len(measured))), measured)

\* Line 269
Verdict(sent, measured) == ListEq(sent, measured)

\* Lines 260-276: the event loop stops and the verdict is computed.
Return ==
    /\ phase = "running"
    /\ ~StepEnabled
    /\ SimOver
    /\ phase' = "returned"
    /\ success' = Verdict(bits, measurements)
    /\ UNCHANGED <<cfgVars, GLOBAL_SHARED_SECRET, aliceVars, bobVars, netVars,
                   now, histVars, codec>>

Next ==
    \/ AliceStart
    \/ AliceOnInput
    \/ AliceOnTimer
    \/ BobRecvBases
    \/ BobRecvKey
    \/ BobRecvTag
    \/ BobRecvQubit
    \/ Tick
    \/ Return

Spec == Init /\ [][Next]_vars

\* Runs used for termination.  Which step is taken never depends on the
\* values of the bits and bases, so they are fixed here; every run
\* parameter still ranges over all its values.
FairInit ==
    /\ Init
    /\ bits = [i \in 1..num_bits |-> 0]
    /\ bases = [i \in 1..num_bits |-> "Z"]

\* The event loop always handles the next scheduled event.
FairSpec == FairInit /\ [][Next]_vars /\ WF_vars(Next)

(* ------------------ repeated sessions in one process ------------------- *)
\* run_bb84_kem is called again after it has returned (avg_100_runs and the
\* search harnesses): lines 235-258 reset the simulator and build a new
\* network and new protocol objects with fresh bits and bases.  The module
\* global GLOBAL_SHARED_SECRET is not reset.
NewSession ==
    /\ phase = "returned"
    /\ session.n < MaxSessions
    /\ bits' \in AllSeqs({0, 1}, num_bits)
    /\ bases' \in AllSeqs({"Z", "X"}, num_bits)
    /\ session' = [session EXCEPT !.n = session.n + 1, !.read = 0,
                                  !.prev = GLOBAL_SHARED_SECRET]
    /\ current_idx' = 0
    /\ attempts' = 0
    /\ a_shared_secret' = None
    /\ bases_bytes' = None
    /\ a_pc' = "start"
    /\ timer' = 0
    /\ measurements' = <<>>
    /\ alice_bases' = None
    /\ expected_idx' = 0
    /\ b_shared_secret' = None
    /\ decrypted_bases_bytes' = None
    /\ encrypted_bases' = None
    /\ encap_key' = None
    /\ seq_num' = IntItem(0)
    /\ b_pc' = "await_bases"
    /\ c_channel_ab' = <<>>
    /\ c_channel_ba' = <<>>
    /\ q_channel' = <<>>
    /\ now' = 0
    /\ phase' = "running"
    /\ success' = FALSE
    /\ sends' = 0
    /\ drops' = 0
    /\ timeouts' = 0
    /\ discards' = 0
    /\ measTags' = <<>>
    /\ secret_src' = "none"
    /\ lost_pending' = FALSE
    /\ ab_sent' = <<>>
    /\ ack_log' = <<>>
    /\ hs_read' = <<>>
    /\ early_tag' = FALSE
    /\ qubit_waited' = FALSE
    /\ lost_log' = <<>>
    /\ UNCHANGED <<num_bits, max_retries, TIMEOUT, DISTANCE,
                   GLOBAL_SHARED_SECRET, codec>>

SessNext == Next \/ NewSession

SessionsSpec == Init /\ [][SessNext]_vars

(* ------------------------ basis codec on its own ------------------------ *)
CodecInputs == UNION {AllSeqs({"X", "Z"}, n) : n \in 1..MaxCodecLen}

CodecInit ==
    /\ codec \in {[pc |-> "input", bases |-> b, packed |-> <<>>, unpacked |-> <<>>] :
                    b \in CodecInputs}
    /\ num_bits = 1
    /\ max_retries = 0
    /\ TIMEOUT = 1
    /\ DISTANCE = 1
    /\ bits = <<0>>
    /\ bases = <<"X">>
    /\ ProtoInit("idle")

CodecPack ==
    /\ codec.pc = "input"
    /\ codec' = [codec EXCEPT !.pc = "packed", !.packed = bases_to_bytes(codec.bases)]
    /\ UNCHANGED protoVars

CodecUnpack ==
    /\ codec.pc = "packed"
    /\ codec' = [codec EXCEPT !.pc = "unpacked",
                              !.unpacked = bytes_to_bases(codec.packed, Len(codec.bases))]
    /\ UNCHANGED protoVars

CodecNext == CodecPack \/ CodecUnpack

CodecSpec == CodecInit /\ [][CodecNext]_vars

(* ---------------------- XOR keystream on its own ----------------------- *)
\* The repository has two keystream routines: the cyclic one of prept5.py
\* (Kyber.encrypt, Kyber.decrypt, BobProtocol.run) and the zip-based one of
\* "t4 t3.1 ack + kyber.py".
Keystream(variant, data, secret) ==
    IF variant = "cycle" THEN XorKeystream(data, secret)
    ELSE XorKeystreamZip(data, secret)

ByteStrings(lo, hi) == UNION {AllSeqs(BYTES, n) : n \in lo..hi}

KsInit ==
    /\ codec \in {[pc |-> "ks_input", variant |-> v, data |-> d, secret |-> k,
                   once |-> <<>>, twice |-> <<>>] :
                    v \in {"cycle", "zip"},
                    d \in ByteStrings(0, MaxDataLen),
                    k \in ByteStrings(1, MaxSecretLen)}
    /\ num_bits = 1
    /\ max_retries = 0
    /\ TIMEOUT = 1
    /\ DISTANCE = 1
    /\ bits = <<0>>
    /\ bases = <<"X">>
    /\ ProtoInit("idle")

\* The sender applies the keystream.
KsEncrypt ==
    /\ codec.pc = "ks_input"
    /\ codec' = [codec EXCEPT !.pc = "ks_once",
                              !.once = Keystream(codec.variant, codec.data, codec.secret)]
    /\ UNCHANGED protoVars

\* The receiver applies it again with the same secret.
KsDecrypt ==
    /\ codec.pc = "ks_once"
    /\ codec' = [codec EXCEPT !.pc = "ks_twice",
                              !.twice = Keystream(codec.variant, codec.once, codec.secret)]
    /\ UNCHANGED protoVars

KsNext == KsEncrypt \/ KsDecrypt

KeystreamSpec == KsInit /\ [][KsNext]_vars

(* ------------- encrypted basis transfer on its own --------------------- *)
BcSecrets == SECRETS \cup {<<90, 165>>}

BcInit ==
    /\ codec \in {[pc |-> "bc_input", variant |-> v, bases |-> b, secret |-> k,
                   packed |-> <<>>, encrypted |-> <<>>, recovered |-> <<>>] :
                    v \in {"cycle", "zip"}, b \in CodecInputs, k \in BcSecrets}
    /\ num_bits = 1
    /\ max_retries = 0
    /\ TIMEOUT = 1
    /\ DISTANCE = 1
    /\ bits = <<0>>
    /\ bases = <<"X">>
    /\ ProtoInit("idle")

\* AliceProtocol.run: pack the bases and encrypt them
\* (prept5.py 138-139; "t4 t3.1 ack + kyber.py" 89-91).
BcAliceEncrypt ==
    /\ codec.pc = "bc_input"
    /\ LET pk == IF codec.variant = "cycle" THEN bases_to_bytes(codec.bases)
                 ELSE bases_to_bytes_t4(codec.bases)
       IN  codec' = [codec EXCEPT !.pc = "bc_sent",
                                  !.packed = pk,
                                  !.encrypted = Keystream(codec.variant, pk, codec.secret)]
    /\ UNCHANGED protoVars

\* BobProtocol.run: decrypt and unpack to num_bits bases
\* (prept5.py 205-214; "t4 t3.1 ack + kyber.py" 149-151).
BcBobRecover ==
    /\ codec.pc = "bc_sent"
    /\ LET dec == Keystream(codec.variant, codec.encrypted, codec.secret)
       IN  codec' = [codec EXCEPT !.pc = "bc_recovered",
                                  !.recovered =
                                      IF codec.variant = "cycle"
                                      THEN bytes_to_bases(dec, Len(codec.bases))
                                      ELSE bytes_to_bases_t4(dec, Len(codec.bases))]
    /\ UNCHANGED protoVars

BcNext == BcAliceEncrypt \/ BcBobRecover

BasisCryptSpec == BcInit /\ [][BcNext]_vars

(* ============================== properties ============================= *)

\* C1: at-most-once measurement.  Every measurement Bob records was made on
\* a (tag, qubit) pair whose tag equalled expected_idx at that moment, and
\* no tag value is measured twice, whatever the losses, timeouts and
\* retransmissions.
C1_AtMostOnceMeasurement ==
    /\ Len(measTags) = Len(measurements)
    /\ \A k \in 1..Len(measTags) : measTags[k][1] = measTags[k][2]
    /\ \A j, k \in 1..Len(measTags) : j # k => measTags[j][1] # measTags[k][1]

\* A retransmitted duplicate was discarded and every index was measured.
C1_Witness ==
    /\ discards > 0
    /\ drops > 0
    /\ num_bits = 2
    /\ Len(measurements) = 2

\* C2: current_idx and expected_idx start at 0, never decrease in a step and
\* never exceed num_bits.
C2_MonotonicIndices ==
    /\ current_idx = 0 /\ expected_idx = 0
    /\ [][/\ current_idx' >= current_idx
          /\ expected_idx' >= expected_idx
          /\ current_idx' <= num_bits
          /\ expected_idx' <= num_bits]_vars

\* Both indices have climbed to num_bits = 2 in a run with a retransmission.
C2_Witness ==
    /\ num_bits = 2
    /\ current_idx = 2
    /\ expected_idx = 2
    /\ timeouts > 0

\* C3 as stated: with no qubit dropped and no timer fired, for any
\* max_retries >= 1 and any num_bits >= 1 the run ends with Alice at
\* current_idx = num_bits, Bob holding num_bits measurements and success.
C3_ZeroLossOriginal ==
    (phase = "returned" /\ drops = 0 /\ timeouts = 0 /\ max_retries >= 1)
        => (success /\ current_idx = num_bits /\ Len(measurements) = num_bits)

\* C3 amended: the same, provided num_bits quantum-channel delays fit before
\* the global end time of the event loop.
C3_ZeroLoss ==
    (phase = "returned" /\ drops = 0 /\ timeouts = 0 /\ max_retries >= 1
        /\ num_bits * QDelay < ENDTIME)
        => (success /\ current_idx = num_bits /\ Len(measurements) = num_bits)

\* A loss-free, timeout-free run of two bits has returned success.
C3_Witness ==
    /\ phase = "returned"
    /\ drops = 0
    /\ timeouts = 0
    /\ max_retries >= 1
    /\ num_bits = 2
    /\ num_bits * QDelay < ENDTIME
    /\ success

\* C4 as stated: with max_retries = 0 and every qubit dropped, Alice makes
\* one send at index 0, it is dropped, one ACK wait times out, and the run
\* returns success = false with nothing delivered.
C4_RetryExhaustionOriginal ==
    (phase = "returned" /\ max_retries = 0 /\ drops = sends)
        => (sends = 1 /\ drops = 1 /\ timeouts = 1 /\ ~success
            /\ Len(measurements) = 0)

\* C4 amended: with max_retries = 0 Alice sends no tag and no qubit and
\* waits for no ACK; she leaves her loop at index 0 at once and the run
\* returns success = false with nothing delivered.
C4_RetryExhaustion ==
    (phase = "returned" /\ max_retries = 0)
        => (sends = 0 /\ drops = 0 /\ timeouts = 0 /\ a_pc = "aborted"
            /\ current_idx = 0 /\ ~success /\ Len(measurements) = 0)

\* A run with max_retries = 0 has returned.
C4_Witness ==
    /\ phase = "returned"
    /\ max_retries = 0
    /\ a_pc = "aborted"

\* C5 as stated: whenever Alice left her loop with the retry budget
\* exhausted, the verdict is false and Bob delivered fewer than num_bits.
C5_RetryExhaustedFailsOriginal ==
    (phase = "returned" /\ a_pc = "aborted")
        => (~success /\ Len(measurements) < num_bits)

\* C5 amended: the same, provided the abort is at an index before the last
\* one or the ACK timeout exceeds the quantum-channel delay (so that the
\* last qubit cannot arrive after Alice has given up).
C5_RetryExhaustedFails ==
    (phase = "returned" /\ a_pc = "aborted"
        /\ (current_idx < num_bits - 1 \/ TIMEOUT > QDelay))
        => (~success /\ Len(measurements) < num_bits)

\* Alice gave up at the last index after a loss, with a timeout longer than
\* the channel delay, and the run returned.
C5_Witness ==
    /\ phase = "returned"
    /\ a_pc = "aborted"
    /\ TIMEOUT > QDelay
    /\ num_bits = 2
    /\ current_idx = 1
    /\ Len(measurements) = 1
    /\ drops > 0

\* C6: the verdict is true iff Bob's measurements have length num_bits and
\* agree with Alice's bits at every index.
C6_VerdictIffExactMatch ==
    phase = "returned"
        => (success <=> (/\ Len(measurements) = num_bits
                         /\ \A i \in 1..num_bits : measurements[i] = bits[i]))

\* A run returned failure with a partial, correct prefix of measurements.
C6_Witness ==
    /\ phase = "returned"
    /\ ~success
    /\ num_bits = 2
    /\ Len(measurements) = 1
    /\ measurements[1] = bits[1]

\* C7: a qubit dropped while a retry is still left is followed, within the
\* same run, by a retransmission of its index (or by the ACK for it), for
\* every ack timeout, including timeouts beyond the global end time: no run
\* returns with such a loss still unrecovered.
C7_LossRecoveredByRetry ==
    phase = "returned" => ~lost_pending

\* C8: every run terminates: the event loop stops and the verdict is
\* computed.
C8_RunTerminates == <>(phase = "returned")

\* The run returned although Alice had aborted and Bob was still waiting.
C8_Witness ==
    /\ phase = "returned"
    /\ a_pc = "aborted"
    /\ b_pc \in {"await_tag", "await_qubit"}

\* C9: the secret Bob decrypts the bases with is obtained by decapsulating
\* the ciphertext he received with his private key, not read from state
\* written by Alice, and equals Alice's secret.
C9_IndependentSecret ==
    b_pc \notin {"await_bases", "await_key"}
        => /\ secret_src = "decapsulate"
           /\ b_shared_secret = decapsulate(BobKey, encap_key)
           /\ b_shared_secret = a_shared_secret

\* C10: bytes_to_bases(bases_to_bytes(b), len(b)) == b for every basis
\* sequence b, whether or not its length is a multiple of 8.
C10_CodecRoundTrip ==
    codec.pc = "unpacked" => codec.unpacked = codec.bases

\* A sequence that needs a padded second byte has been packed and unpacked.
C10_Witness ==
    /\ codec.pc = "unpacked"
    /\ Len(codec.bases) > 8
    /\ Len(codec.bases) % 8 # 0
    /\ Len(codec.packed) = 2
    /\ codec.unpacked = codec.bases

\* C11: keystream involution.  For every byte string d, of any length, and
\* every secret of length >= 1, applying the XOR keystream twice with the
\* same secret returns d: same length, same bytes.
C11_KeystreamInvolution ==
    codec.pc = "ks_twice" => codec.twice = codec.data

\* C13 as stated: a sequence tag that reaches the Responder before it has
\* received both handshake messages is fatal: nothing is measured, and the
\* session ends as a failed result.
C13_MalformedFatalOriginal ==
    early_tag => (Len(measurements) = 0 /\ (phase = "returned" => ~success))

\* C13 amended: a tag that reaches the Responder before the handshake is
\* complete is not fatal.  The Responder reads the first two classical
\* messages, the encrypted bases and the encapsulated key, as the handshake
\* and never a tag; the early tag stays on the port until the handshake is
\* complete and is then read as a tag; the session goes on and, without loss
\* or timeout and within the end time, it succeeds.
C13_EarlyTagQueued ==
    /\ Len(hs_read) <= 2
    /\ \A i \in 1..Len(hs_read) : hs_read[i] = <<"bytes", "encap">>[i]
    /\ seq_num.type = "int"
    /\ (early_tag /\ b_pc = "await_key") => TagWaiting(c_channel_ab)
    /\ (phase = "returned" /\ early_tag /\ drops = 0 /\ timeouts = 0
            /\ num_bits * QDelay < ENDTIME)
        => (success /\ Len(measurements) = num_bits)

\* A tag was at the Responder's port during the handshake and the run has
\* returned success.
C13_Witness ==
    /\ phase = "returned"
    /\ early_tag
    /\ hs_read = <<"bytes", "encap">>
    /\ Len(measurements) = num_bits
    /\ success

\* An ACK wait of Alice ends in this step without a matching ACK: the timer
\* fired, or the message read from cin does not carry current_idx.
C14_WaitEndsUnacked ==
    /\ a_pc = "await_ack"
    /\ \/ timeouts' # timeouts
       \/ /\ c_channel_ba' # c_channel_ba
          /\ Len(c_channel_ba) > 0
          /\ c_channel_ba' = Tail(c_channel_ba)
          /\ Head(c_channel_ba).item # IntItem(current_idx)

\* Alice reads an ACK carrying current_idx in this step.
C14_WaitEndsAcked ==
    /\ a_pc = "await_ack"
    /\ Available(c_channel_ba)
    /\ Head(c_channel_ba).item = IntItem(current_idx)
    /\ c_channel_ba' = Tail(c_channel_ba)

\* C14: current_idx changes only by +1 and only in a step in which Alice
\* reads an ACK equal to current_idx; when a wait ends by timeout or with a
\* non-matching message, current_idx is unchanged, attempts grows by one, and
\* what is sent next is the tag of the same index with a freshly prepared
\* qubit of that index.
C14_IndexFrame ==
    [][/\ (current_idx' # current_idx)
            => (current_idx' = current_idx + 1 /\ C14_WaitEndsAcked)
       /\ C14_WaitEndsUnacked
            => /\ current_idx' = current_idx
               /\ attempts' = attempts + 1
               /\ Sent(c_channel_ab, c_channel_ab') \in {<<>>, <<IntItem(current_idx)>>}
               /\ (sends' # sends) <=> (Sent(c_channel_ab, c_channel_ab') # <<>>)
               /\ q_channel' \in {q_channel,
                                  Append(q_channel, Msg(now + QDelay, Qubit(current_idx)))}
               /\ (q_channel' # q_channel) => (sends' = sends + 1)
      ]_vars

\* After a timeout Alice has sent the tag of the same index again, and later
\* the index advanced on its ACK.
C14_Witness ==
    /\ timeouts > 0
    /\ current_idx = 1
    /\ \E i \in 1..Len(ab_sent), j \in 1..Len(ab_sent) :
        i < j /\ ab_sent[i] = IntItem(0) /\ ab_sent[j] = IntItem(0)

\* C15: once the retry budget is exhausted at index i Alice sends nothing
\* more: no further tag, no further qubit, and no tag greater than i has been
\* or will be put on the classical channel.
C15_SilentAfterExhaustion ==
    [][/\ a_pc' = "aborted"
            => \A k \in 1..Len(ab_sent') :
                 ab_sent'[k].type = "int" => ab_sent'[k].val <= current_idx'
       /\ a_pc = "aborted"
            => /\ a_pc' = "aborted"
               /\ current_idx' = current_idx
               /\ ab_sent' = ab_sent
               /\ sends' = sends
               /\ Len(c_channel_ab') <= Len(c_channel_ab)
               /\ Len(q_channel') <= Len(q_channel)
      ]_vars

\* Alice used up her retries at index 0 of two (Bob discarded a stale pair)
\* and the run returned with index 1 never sent.
C15_Witness ==
    /\ phase = "returned"
    /\ a_pc = "aborted"
    /\ num_bits = 2
    /\ current_idx = 0
    /\ sends = max_retries
    /\ sends > 0
    /\ discards > 0

\* The number of (tag, qubit) pairs Alice has sent for index i.
C16_PairsSent(log, i) == Cardinality({k \in 1..Len(log) : log[k] = IntItem(i)})

\* C16: for every index Alice sends at most max_retries (tag, qubit) pairs;
\* attempts restarts at 0 when the index advances and sending goes on; and
\* Alice aborts exactly when the max_retries-th consecutive ACK wait at the
\* same index ends without a matching ACK, never earlier.
C16_BoundedAttempts ==
    [][/\ \A i \in 0..(num_bits - 1) : C16_PairsSent(ab_sent', i) <= max_retries
       /\ (a_pc' = "await_ack")
            => (attempts' < max_retries
                /\ C16_PairsSent(ab_sent', current_idx') = attempts' + 1)
       /\ (current_idx' # current_idx /\ a_pc' = "await_ack") => attempts' = 0
       /\ (a_pc # "aborted" /\ a_pc' = "aborted")
            => /\ attempts' = max_retries
               /\ C16_PairsSent(ab_sent', current_idx') = max_retries
               /\ (a_pc = "await_ack") => C14_WaitEndsUnacked
       /\ (C14_WaitEndsUnacked /\ attempts + 1 = max_retries) => a_pc' = "aborted"
       /\ (C14_WaitEndsUnacked /\ attempts + 1 < max_retries) => a_pc' = "await_ack"
      ]_vars

\* Alice advanced to index 1 on an ACK, then sent two pairs for index 1 and
\* gave up after the second wait.
C16_Witness ==
    /\ a_pc = "aborted"
    /\ max_retries = 2
    /\ current_idx = 1
    /\ attempts = 2
    /\ C16_PairsSent(ab_sent, 1) = 2
    /\ C16_PairsSent(ab_sent, 0) >= 1

\* C17: when Bob has read a tag that differs from expected_idx and the
\* qubit of the pair arrives, the step leaves expected_idx and measurements
\* unchanged, puts nothing on the channel to Alice, drops the qubit, and Bob
\* waits for the next tag.
C17_MismatchIsSilent ==
    [][(b_pc = "await_qubit" /\ b_pc' # "await_qubit"
            /\ seq_num # IntItem(expected_idx))
        => /\ expected_idx' = expected_idx
           /\ measurements' = measurements
           /\ c_channel_ba' = c_channel_ba
           /\ ack_log' = ack_log
           /\ q_channel' = Tail(q_channel)
           /\ b_pc' = "await_tag"
      ]_vars

\* Bob has measured index 0, then discarded a pair whose tag was stale, and
\* waits for a tag with nothing changed.
C17_Witness ==
    /\ discards > 0
    /\ b_pc = "await_tag"
    /\ expected_idx = 1
    /\ Len(measurements) = 1
    /\ ack_log = <<0>>
    /\ seq_num = IntItem(0)

\* The step in which Bob takes the qubit of a pair whose tag equals
\* expected_idx.
C18_MatchStep ==
    /\ b_pc = "await_qubit"
    /\ b_pc' # "await_qubit"
    /\ seq_num = IntItem(expected_idx)

\* C18: on a tag equal to expected_idx = k Bob, in one step, appends exactly
\* one measurement result (element k of the measured sequence), sends exactly
\* one ACK carrying k, the index before the increment, and sets expected_idx
\* to k + 1; so over a session the ACK values sent are 0, 1, 2, ... in this
\* order, at most one per index.
C18_MatchMeasuresAndAcks ==
    [][/\ C18_MatchStep
            => /\ Len(measurements') = Len(measurements) + 1
               /\ SubSeq(measurements', 1, Len(measurements)) = measurements
               /\ Len(measurements') = expected_idx + 1
               /\ measurements'[expected_idx + 1] \in {0, 1}
               /\ c_channel_ba' = Append(c_channel_ba,
                                         Msg(now + CDELAY, IntItem(expected_idx)))
               /\ ack_log' = Append(ack_log, expected_idx)
               /\ expected_idx' = expected_idx + 1
       /\ (ack_log' # ack_log \/ Len(c_channel_ba') > Len(c_channel_ba))
            => C18_MatchStep
       /\ ack_log' = [i \in 1..Len(ack_log') |-> i - 1]
      ]_vars

\* Bob has measured and acknowledged indices 0 and 1, in this order.
C18_Witness ==
    /\ ack_log = <<0, 1>>
    /\ Len(measurements) = 2
    /\ expected_idx = 2
    /\ measTags = <<<<0, 0>>, <<1, 1>>>>

C20_CyclicKeystreamRecoversBases ==
    codec.pc = "bc_recovered"
        => /\ Len(codec.encrypted) = Len(codec.packed)
           /\ \A i \in 1..Len(codec.packed) :
                codec.encrypted[i] =
                    XorByte(codec.packed[i],
                            codec.secret[((i - 1) % Len(codec.secret)) + 1])
           /\ codec.recovered = codec.bases

\* C21: when the ACK for the current index is at Alice's port at exactly the
\* instant at which the ACK timer fires, the wait ends by the message: Alice
\* reads the ACK and advances; she does not count a timeout.
C21_AckWinsTie ==
    [][(/\ a_pc = "await_ack"
        /\ timer = now
        /\ Len(c_channel_ba) > 0
        /\ Head(c_channel_ba) = Msg(now, IntItem(current_idx))
        /\ (timeouts' # timeouts \/ Len(c_channel_ba') < Len(c_channel_ba)))
        => /\ timeouts' = timeouts
           /\ c_channel_ba' = Tail(c_channel_ba)
           /\ current_idx' = current_idx + 1
      ]_vars

C24_BoundedSkew ==
    expected_idx \in {current_idx, current_idx + 1}

\* Bob has measured index 1 and is one ahead of Alice, who has given up at
\* index 1 after a timeout.
C24_Witness ==
    /\ a_pc = "aborted"
    /\ current_idx = 1
    /\ expected_idx = 2
    /\ timeouts > 0
    /\ Len(measurements) = 2

\* C25: with the bases recovered correctly, in every reachable state Bob's
\* measurement list has length expected_idx and equals the first
\* expected_idx bits of Alice; and whenever Bob pairs a qubit with a tag
\* equal to expected_idx = k, that qubit was encoded by Alice for index k,
\* also when losses and retransmissions have left stale tags and qubits in
\* the channels.
C25_PrefixOfBits ==
    [][/\ (Len(hs_read') = 2 /\ alice_bases' = bases')
            => /\ Len(measurements') = expected_idx'
               /\ \A i \in 1..Len(measurements') : measurements'[i] = bits'[i]
       /\ (b_pc = "await_qubit" /\ b_pc' # "await_qubit"
                /\ seq_num = IntItem(expected_idx))
            => Head(q_channel).item.idx = expected_idx
      ]_vars

\* After a loss and a discarded stale pair Bob holds both bits of Alice,
\* which differ from each other.
C25_Witness ==
    /\ alice_bases = bases
    /\ expected_idx = 2
    /\ measurements = bits
    /\ bits[1] # bits[2]
    /\ drops > 0
    /\ discards > 0

\* C26: every message Alice reads from cin in the data loop is an ACK whose
\* value equals her current_idx at that moment; a read of a message that
\* does not match current_idx never happens, and no such message is ever
\* waiting on the channel to Alice.
C26_NoStaleAck ==
    [][/\ (a_pc = "await_ack" /\ Len(c_channel_ba') < Len(c_channel_ba))
            => /\ Head(c_channel_ba).item = IntItem(current_idx)
               /\ current_idx' = current_idx + 1
               /\ timeouts' = timeouts
       /\ Len(c_channel_ba') <= 1
       /\ \A k \in 1..Len(c_channel_ba') :
            c_channel_ba'[k].item = IntItem(current_idx')
      ]_vars

\* Alice has read both ACKs although retransmissions after timeouts made Bob
\* discard a duplicate pair.
C26_Witness ==
    /\ a_pc = "done"
    /\ current_idx = 2
    /\ ack_log = <<0, 1>>
    /\ c_channel_ba = <<>>
    /\ timeouts > 0
    /\ discards > 0

\* C27: if Alice has completed (current_idx = num_bits) then Bob has
\* measured all num_bits indices and, with the bases recovered correctly,
\* his measurements are Alice's bits and the verdict of the run is success:
\* a completed Alice never coexists with a failed result.
C27_CompletedImpliesSuccess ==
    current_idx = num_bits
        => /\ a_pc = "done"
           /\ expected_idx = num_bits
           /\ Len(measurements) = num_bits
           /\ alice_bases = bases
                => /\ Verdict(bits, measurements)
                   /\ phase = "returned" => success

\* Alice completed two bits after a loss, and the run returned success.
C27_Witness ==
    /\ phase = "returned"
    /\ current_idx = num_bits
    /\ num_bits = 2
    /\ alice_bases = bases
    /\ drops > 0
    /\ success

\* C28: Bob discards a qubit only when it is a duplicate for an index he has
\* already measured; he never discards a qubit that Alice encoded for his
\* current expected_idx.
C28_DiscardsOnlyDuplicates ==
    [][(b_pc = "await_qubit" /\ b_pc' # "await_qubit"
            /\ seq_num # IntItem(expected_idx))
        => Head(q_channel).item.idx < expected_idx
      ]_vars

\* The number of qubits sent for index i that the fibre dropped, and the
\* number of (tag, qubit) pairs sent for index i.
C29_DropsAt(i) == Cardinality({k \in 1..Len(lost_log) : lost_log[k] = i})

C29_AttemptsAt(i) == Cardinality({k \in 1..Len(ab_sent) : ab_sent[k] = IntItem(i)})

\* C29: the retry budget is per index.  With the ACK timeout above the
\* round-trip delay, a session whose sender ran to its end succeeds whenever
\* at every index fewer than max_retries of the qubits sent for it are
\* dropped, and an index needs no more attempts than its own drops plus one:
\* losses at earlier indices do not cost attempts at later indices.
C29_BudgetPerIndex ==
    TIMEOUT > QDelay + CDELAY
        => /\ (/\ phase = "returned"
               /\ a_pc \in {"done", "aborted"}
               /\ \A i \in 0..(num_bits - 1) : C29_DropsAt(i) < max_retries)
                => success
           /\ \A i \in 0..(num_bits - 1) :
                C29_AttemptsAt(i) <= C29_DropsAt(i) + 1

\* C30: when run_bb84_kem is called repeatedly in one process, the secret
\* Bob reads from GLOBAL_SHARED_SECRET in session n is the one Alice wrote in
\* session n: the write precedes the read, which happens only after both
\* handshake messages have arrived; it is never a value left by session
\* n - 1 and never None.
C30_SecretOfThisSession ==
    /\ Len(hs_read) = 2
        => /\ session.read = session.n
           /\ session.wrote = session.n
           /\ b_shared_secret # None
           /\ b_shared_secret = a_shared_secret
           /\ b_shared_secret = GLOBAL_SHARED_SECRET
    /\ Len(hs_read) < 2 => (session.read = 0 /\ b_shared_secret = None)
    /\ a_pc = "start" => session.wrote = session.n - 1
    /\ a_pc # "start"
        => (session.wrote = session.n /\ GLOBAL_SHARED_SECRET = a_shared_secret)

\* In the second session Bob has read a secret that differs from the one
\* the first session left in the global.
C30_Witness ==
    /\ session.n = 2
    /\ session.read = 2
    /\ session.prev # None
    /\ b_shared_secret # session.prev
    /\ b_shared_secret = a_shared_secret
    /\ Len(hs_read) = 2

====
